---- MODULE Spec2Model ----
(***************************************************************************)
(* Model of rustils: the Option type of src/src/option.ts and the Result   *)
(* type of src/src/result.ts (the documented definition, lines 170-635,    *)
(* whose constructor takes the hasOk discriminant).                         *)
(*                                                                         *)
(* Instances live in a heap and are named by their address, so that "the   *)
(* same instance" and "an equal instance" are different things.  Every     *)
(* action is one call of the public API on the instances built so far;     *)
(* `last` records that call: the operation, the receiver, the arguments,   *)
(* the completion (a returned value or a thrown one) and the calls it made *)
(* to caller-supplied callbacks.                                           *)
(***************************************************************************)
EXTENDS Integers, Sequences, FiniteSets, TLC

VARIABLES heap, made, last

vars == <<heap, made, last>>

(* Largest number of instances a run constructs. *)
MaxHeap == 2

(***************************************************************************)
(* JavaScript values.  A value is a record [ty, n, s]: ty is its type      *)
(* (typeof, with null, functions and the thrown Error / TypeError objects  *)
(* told apart), n its number (or the address of an instance, or a boolean  *)
(* as 0/1) and s its text (a string's characters, an Error's message, a    *)
(* function's source text, "NaN" for the number NaN).                      *)
(***************************************************************************)
Undefined == [ty |-> "undefined", n |-> 0, s |-> ""]

Null == [ty |-> "null", n |-> 0, s |-> ""]

Bool(b) == [ty |-> "boolean", n |-> IF b THEN 1 ELSE 0, s |-> ""]

Num(k) == [ty |-> "number", n |-> k, s |-> ""]

NaN == [ty |-> "number", n |-> 0, s |-> "NaN"]

Str(x) == [ty |-> "string", n |-> 0, s |-> x]

Ref(a) == [ty |-> "object", n |-> a, s |-> ""]

Fn(src) == [ty |-> "function", n |-> 0, s |-> src]

(* `new Error(message)` *)
ErrorObj(message) == [ty |-> "Error", n |-> 0, s |-> message]

(* The TypeError the engine raises for a property read on null or undefined. *)
TypeErrorObj == [ty |-> "TypeError", n |-> 0, s |-> "Cannot read property 'toString'"]

(* Completions of a call. *)
Return(v) == [kind |-> "return", val |-> v]

Throw(v) == [kind |-> "throw", val |-> v]

(* `!!v` *)
ToBoolean(v) ==
  CASE v.ty = "undefined" -> FALSE
    [] v.ty = "null" -> FALSE
    [] v.ty = "boolean" -> v.n = 1
    [] v.ty = "number" -> v.n # 0 /\ v.s # "NaN"
    [] v.ty = "string" -> v.s # ""
    [] OTHER -> TRUE

Digit(d) ==
  CASE d = 0 -> "0" [] d = 1 -> "1" [] d = 2 -> "2" [] d = 3 -> "3" [] d = 4 -> "4"
    [] d = 5 -> "5" [] d = 6 -> "6" [] d = 7 -> "7" [] d = 8 -> "8" [] d = 9 -> "9"

RECURSIVE NumToString(_)
NumToString(k) ==
  IF k < 0 THEN "-" \o NumToString(-k)
  ELSE IF k < 10 THEN Digit(k)
  ELSE NumToString(k \div 10) \o Digit(k % 10)

(* `String(v)`, the conversion `+` and template literals apply: total. *)
JsString(v) ==
  CASE v.ty = "undefined" -> "undefined"
    [] v.ty = "null" -> "null"
    [] v.ty = "boolean" -> IF v.n = 1 THEN "true" ELSE "false"
    [] v.ty = "number" -> IF v.s = "NaN" THEN "NaN" ELSE NumToString(v.n)
    [] v.ty = "string" -> v.s
    [] v.ty = "Error" -> IF v.s = "" THEN "Error" ELSE "Error: " \o v.s
    [] v.ty = "TypeError" -> "TypeError: " \o v.s
    [] v.ty = "function" -> v.s
    [] OTHER -> "[object Object]"

(* `v.toString()`: a method call, so it throws on null and undefined. *)
toString(v) ==
  IF v.ty \in {"undefined", "null"}
  THEN Throw(TypeErrorObj)
  ELSE Return(Str(JsString(v)))

(* `Number(s)` of a string: 0 for the empty string, the number a decimal   *)
(* numeral spells, NaN for any other text.                                  *)
ParseNumber(s) ==
  IF s = "" THEN Num(0)
  ELSE IF \E k \in 0..999 : NumToString(k) = s
       THEN Num(CHOOSE k \in 0..999 : NumToString(k) = s)
       ELSE NaN

(* `Number(v)`, the conversion the arithmetic operators apply; NaN where   *)
(* there is no number.                                                      *)
ToNumber(v) ==
  CASE v.ty = "null" -> Num(0)
    [] v.ty = "boolean" -> Num(v.n)
    [] v.ty = "number" -> v
    [] v.ty = "string" -> ParseNumber(v.s)
    [] OTHER -> NaN

(* `a + b` *)
JsAdd(a, b) ==
  IF a.ty \in {"undefined", "null", "boolean", "number"}
     /\ b.ty \in {"undefined", "null", "boolean", "number"}
  THEN IF ToNumber(a).s = "NaN" \/ ToNumber(b).s = "NaN"
       THEN NaN
       ELSE Num(ToNumber(a).n + ToNumber(b).n)
  ELSE Str(JsString(a) \o JsString(b))

(* `a * b` *)
JsMul(a, b) ==
  IF ToNumber(a).s = "NaN" \/ ToNumber(b).s = "NaN"
  THEN NaN
  ELSE Num(ToNumber(a).n * ToNumber(b).n)

(***************************************************************************)
(* The machine the calls run on: the heap of instances, how each instance  *)
(* was built (the factory and its argument) and the log of callback calls. *)
(***************************************************************************)
Ret(st, v) == [st |-> st, out |-> Return(v)]

Thr(st, v) == [st |-> st, out |-> Throw(v)]

(* `new C(...)`: a fresh instance at the next address. *)
New(st, obj, by, arg) ==
  Ret([heap |-> Append(st.heap, obj),
       made |-> Append(st.made, [by |-> by, arg |-> arg]),
       calls |-> st.calls],
      Ref(Len(st.heap) + 1))

(* Mapping functions handed to map: the identity, the tests' addition, the *)
(* square of the spec's scenario and one whose result is always falsy.      *)
MapFns == {Fn("v => v"), Fn("v => v + 10"), Fn("x => x * x"), Fn("() => 0")}

(* `x => g(f(x))` *)
Compose(g, f) == Fn("x => (" \o g.s \o ")((" \o f.s \o ")(x))")

(* Bodies of the callbacks the calls are given: those that return a plain  *)
(* value.                                                                   *)
RECURSIVE FnBody(_, _)
FnBody(src, args) ==
  CASE src = "v => v + 10" -> JsAdd(args[1], Num(10))
    [] src = "v => v" -> args[1]
    [] src = "x => x * x" -> JsMul(args[1], args[1])
    [] src = "v => v + 50" -> JsAdd(args[1], Num(50))
    [] src = "() => 1" -> Num(1)
    [] src = "() => 12" -> Num(12)
    [] src = "() => 100" -> Num(100)
    [] src = "() => 'none'" -> Str("none")
    [] src = "e => e + 's'" -> JsAdd(args[1], Str("s"))
    [] src = "() => 'error'" -> Str("error")
    [] src = "() => 0" -> Num(0)
    [] OTHER ->
         LET p == CHOOSE p \in MapFns \X MapFns : Compose(p[1], p[2]).s = src
         IN FnBody(p[1].s, <<FnBody(p[2].s, args)>>)

(***************************************************************************)
(* src/src/result.ts, lines 170-635: Ok, Err and class Result.             *)
(***************************************************************************)
Ok(st, value) ==
  New(st, [cls |-> "Result", value |-> value, error |-> Null, hasOk |-> TRUE],
      "Ok", value)

(* Err leaving the value slot undefined. *)
Err_undefined(st, error) ==
  New(st, [cls |-> "Result", value |-> Undefined, error |-> error, hasOk |-> FALSE],
      "Err", error)

Err(st, error) ==
  New(st, [cls |-> "Result", value |-> Null, error |-> error, hasOk |-> FALSE],
      "Err", error)

(***************************************************************************)
(* src/src/option.ts: Some, None and class Option.                         *)
(***************************************************************************)
Some(st, value) == New(st, [cls |-> "Option", value |-> value], "Some", value)

None(st) == New(st, [cls |-> "Option", value |-> Null], "None", Undefined)

(* A callback given to the library may itself call the library; its      *)
(* definition follows the methods.                                          *)
RECURSIVE FnRun(_, _, _)

(* A call of a caller-supplied callback: logged, then evaluated. *)
Call(st, fn, args) ==
  FnRun([st EXCEPT !.calls = Append(@, [fn |-> fn.s, args |-> args])],
        fn.s, args)

Option_isSome(o) == ToBoolean(o.value)

Option_isNone(o) == ~ToBoolean(o.value)

Option_expect(st, this, str) ==
  IF Option_isSome(st.heap[this])
  THEN Ret(st, st.heap[this].value)
  ELSE Thr(st, ErrorObj(str))

Option_unwrap(st, this) ==
  IF Option_isSome(st.heap[this])
  THEN Ret(st, st.heap[this].value)
  ELSE Thr(st, ErrorObj(""))

Option_unwrapOr(st, this, def) ==
  IF Option_isSome(st.heap[this])
  THEN Ret(st, st.heap[this].value)
  ELSE Ret(st, def)

Option_unwrapOrElse(st, this, cb) ==
  IF Option_isSome(st.heap[this])
  THEN Ret(st, st.heap[this].value)
  ELSE Call(st, cb, <<>>)

(* Option.map writing the mapped value into the receiver. *)
Option_map_inplace(st, this, cb) ==
  IF Option_isSome(st.heap[this])
  THEN LET r == Call(st, cb, <<st.heap[this].value>>)
       IN IF r.out.kind = "throw"
          THEN r
          ELSE Ret([r.st EXCEPT !.heap[this].value = r.out.val], Ref(this))
  ELSE Ret(st, Ref(this))

Option_map(st, this, cb) ==
  IF Option_isSome(st.heap[this])
  THEN LET r == Call(st, cb, <<st.heap[this].value>>)
       IN IF r.out.kind = "throw" THEN r ELSE Some(r.st, r.out.val)
  ELSE Ret(st, Ref(this))

Option_mapOr(st, this, def, cb) ==
  IF Option_isSome(st.heap[this])
  THEN Call(st, cb, <<st.heap[this].value>>)
  ELSE Ret(st, def)

Option_mapOrElse(st, this, def, cb) ==
  IF Option_isSome(st.heap[this])
  THEN Call(st, cb, <<st.heap[this].value>>)
  ELSE Call(st, def, <<>>)

Option_match(st, this, matcher) ==
  IF Option_isSome(st.heap[this])
  THEN Call(st, matcher.Some, <<st.heap[this].value>>)
  ELSE Call(st, matcher.None, <<>>)

Option_okOr(st, this, err) ==
  IF Option_isSome(st.heap[this])
  THEN Ok(st, st.heap[this].value)
  ELSE Err(st, err)

Option_okOrElse(st, this, err) ==
  IF Option_isSome(st.heap[this])
  THEN Ok(st, st.heap[this].value)
  ELSE LET r == Call(st, err, <<>>)
       IN IF r.out.kind = "throw" THEN r ELSE Err(r.st, r.out.val)

Option_and(st, this, optb) ==
  IF Option_isSome(st.heap[this])
  THEN Ret(st, optb)
  ELSE Ret(st, Ref(this))

(* Option.andThen keeping the receiver when the callback returns an absent *)
(* Option.                                                                  *)
Option_andThen_keep(st, this, cb) ==
  IF Option_isSome(st.heap[this])
  THEN LET r == Call(st, cb, <<st.heap[this].value>>)
       IN IF /\ r.out.kind = "return"
             /\ r.out.val.ty = "object"
             /\ ~Option_isSome(r.st.heap[r.out.val.n])
          THEN Ret(r.st, Ref(this))
          ELSE r
  ELSE Ret(st, Ref(this))

Option_andThen(st, this, cb) ==
  IF Option_isSome(st.heap[this])
  THEN Call(st, cb, <<st.heap[this].value>>)
  ELSE Ret(st, Ref(this))

(* Option.or returning a copy of the receiver. *)
Option_or_copy(st, this, optb) ==
  IF Option_isSome(st.heap[this])
  THEN Some(st, st.heap[this].value)
  ELSE Ret(st, optb)

Option_or(st, this, optb) ==
  IF Option_isSome(st.heap[this])
  THEN Ret(st, Ref(this))
  ELSE Ret(st, optb)

Option_orElse(st, this, cb) ==
  IF Option_isSome(st.heap[this])
  THEN Ret(st, Ref(this))
  ELSE Call(st, cb, <<>>)

(* `x.unwrap()` on whatever value x is: the method of the instance, or the *)
(* TypeError of calling a property that is no function.                     *)
NotAFunction == [ty |-> "TypeError", n |-> 0, s |-> "unwrap is not a function"]

Member_unwrap(st, x) ==
  IF x.ty = "object" /\ x.n \in DOMAIN st.heap /\ st.heap[x.n].cls = "Option"
  THEN Option_unwrap(st, x.n)
  ELSE Thr(st, NotAFunction)

(* The usage example of the README: `option.andThen(cb).unwrap()`. *)
Usage_andThen_unwrap(st, this, cb) ==
  LET r == Option_andThen(st, this, cb)
  IN IF r.out.kind = "throw" THEN r ELSE Member_unwrap(r.st, r.out.val)

(***************************************************************************)
(* class Result, continued.                                                *)
(***************************************************************************)
(* How deep the getters of Result are followed before a read is given up   *)
(* as unbounded.                                                            *)
MaxStack == 4

(* The getters as first defined: isOk read ok, and ok read isOk. *)
GetterReads_mutual(g) ==
  CASE g = "Result.ok" -> {"Result.isOk"}
    [] g = "Result.err" -> {"Result.isErr"}
    [] g = "Result.isOk" -> {"Result.ok"}
    [] g = "Result.isErr" -> {}

(* The getters of Result that the body of getter g reads; hasOk, value and *)
(* error are fields.                                                        *)
GetterReads(g) ==
  CASE g = "Result.ok" -> {}
    [] g = "Result.err" -> {}
    [] g = "Result.isOk" -> {}
    [] g = "Result.isErr" -> {}

(* Reading getter g comes to an end within `depth` nested reads. *)
RECURSIVE Settles(_, _)
Settles(g, depth) ==
  /\ depth > 0
  /\ \A h \in GetterReads(g) : Settles(h, depth - 1)

Result_ok(st, this) ==
  IF st.heap[this].hasOk
  THEN Some(st, st.heap[this].value)
  ELSE None(st)

(* Result.err reading the wrong slot. *)
Result_err_value(st, this) ==
  IF ~st.heap[this].hasOk
  THEN Some(st, st.heap[this].value)
  ELSE None(st)

Result_err(st, this) ==
  IF ~st.heap[this].hasOk
  THEN Some(st, st.heap[this].error)
  ELSE None(st)

Result_isOk(o) == o.hasOk

(* Result.isErr inferred from the truthiness of the error slot. *)
Result_isErr_truthy(o) == ToBoolean(o.error)

Result_isErr(o) == ~o.hasOk

(* Result.map deciding by the truthiness of the value slot. *)
Result_map_truthy(st, this, cb) ==
  IF ToBoolean(st.heap[this].value)
  THEN LET r == Call(st, cb, <<st.heap[this].value>>)
       IN IF r.out.kind = "throw" THEN r ELSE Ok(r.st, r.out.val)
  ELSE Ret(st, Ref(this))

Result_map(st, this, cb) ==
  IF st.heap[this].hasOk
  THEN LET r == Call(st, cb, <<st.heap[this].value>>)
       IN IF r.out.kind = "throw" THEN r ELSE Ok(r.st, r.out.val)
  ELSE Ret(st, Ref(this))

(* Result.mapErr mapping the value slot instead of the error slot. *)
Result_mapErr_value(st, this, cb) ==
  IF st.heap[this].hasOk
  THEN Ret(st, Ref(this))
  ELSE LET r == Call(st, cb, <<st.heap[this].value>>)
       IN IF r.out.kind = "throw" THEN r ELSE Err(r.st, r.out.val)

Result_mapErr(st, this, cb) ==
  IF st.heap[this].hasOk
  THEN Ret(st, Ref(this))
  ELSE LET r == Call(st, cb, <<st.heap[this].error>>)
       IN IF r.out.kind = "throw" THEN r ELSE Err(r.st, r.out.val)

(* Result.match marking the receiver as consumed by its first match. *)
Result_match_once(st, this, matcher) ==
  LET r == IF st.heap[this].hasOk
           THEN Call(st, matcher.Ok, <<st.heap[this].value>>)
           ELSE Call(st, matcher.Err, <<st.heap[this].error>>)
  IN [r EXCEPT !.st.heap[this].hasOk = FALSE]

Result_match(st, this, matcher) ==
  IF st.heap[this].hasOk
  THEN Call(st, matcher.Ok, <<st.heap[this].value>>)
  ELSE Call(st, matcher.Err, <<st.heap[this].error>>)

Result_and(st, this, res) ==
  IF st.heap[this].hasOk
  THEN Ret(st, res)
  ELSE Ret(st, Ref(this))

(* Result.andThen deciding by the truthiness of the value slot. *)
Result_andThen_truthy(st, this, cb) ==
  IF ToBoolean(st.heap[this].value)
  THEN Call(st, cb, <<st.heap[this].value>>)
  ELSE Ret(st, Ref(this))

Result_andThen(st, this, cb) ==
  IF st.heap[this].hasOk
  THEN Call(st, cb, <<st.heap[this].value>>)
  ELSE Ret(st, Ref(this))

Result_or(st, this, res) ==
  IF st.heap[this].hasOk
  THEN Ret(st, Ref(this))
  ELSE Ret(st, res)

(* Result.orElse calling the callback without the error: its parameter is *)
(* then undefined.                                                          *)
Result_orElse_noarg(st, this, cb) ==
  IF st.heap[this].hasOk
  THEN Ret(st, Ref(this))
  ELSE Call(st, cb, <<Undefined>>)

Result_orElse(st, this, cb) ==
  IF st.heap[this].hasOk
  THEN Ret(st, Ref(this))
  ELSE Call(st, cb, <<st.heap[this].error>>)

(* Result.unwrapOr falling back whenever the value slot is falsy. *)
Result_unwrapOr_truthy(st, this, optb) ==
  IF ToBoolean(st.heap[this].value)
  THEN Ret(st, st.heap[this].value)
  ELSE Ret(st, optb)

Result_unwrapOr(st, this, optb) ==
  IF st.heap[this].hasOk
  THEN Ret(st, st.heap[this].value)
  ELSE Ret(st, optb)

Result_unwrapOrElse(st, this, cb) ==
  IF st.heap[this].hasOk
  THEN Ret(st, st.heap[this].value)
  ELSE Call(st, cb, <<st.heap[this].error>>)

(* Result.unwrap throwing the error slot itself. *)
Result_unwrap_raw(st, this) ==
  IF st.heap[this].hasOk
  THEN Ret(st, st.heap[this].value)
  ELSE Thr(st, st.heap[this].error)

Result_unwrap(st, this) ==
  IF st.heap[this].hasOk
  THEN Ret(st, st.heap[this].value)
  ELSE LET s == toString(st.heap[this].error)
       IN IF s.kind = "throw" THEN Thr(st, s.val) ELSE Thr(st, ErrorObj(s.val.s))

Result_unwrapErr(st, this) ==
  IF Result_isErr(st.heap[this])
  THEN Ret(st, st.heap[this].error)
  ELSE LET s == toString(st.heap[this].value)
       IN IF s.kind = "throw" THEN Thr(st, s.val) ELSE Thr(st, ErrorObj(s.val.s))

Result_expect(st, this, msg) ==
  IF st.heap[this].hasOk
  THEN Ret(st, st.heap[this].value)
  ELSE LET s == toString(st.heap[this].error)
       IN IF s.kind = "throw"
          THEN Thr(st, s.val)
          ELSE Thr(st, ErrorObj(msg \o ": " \o s.val.s))

(***************************************************************************)
(* The inputs of the calls.                                                *)
(***************************************************************************)
(* Payloads handed to the factories: the falsy values, null and undefined, *)
(* and a number and a string that are truthy.                               *)
Payloads ==
  {Undefined, Null, Bool(FALSE), Num(0), Str(""), Num(5), Str("boom")}

(* Failure values handed to okOr. *)
ErrArgs == {Str("e"), Num(0), Null}

(* Messages handed to expect. *)
Msgs == {"msg", ""}

(* Suppliers handed to okOrElse. *)
Suppliers == {Fn("() => 'error'"), Fn("() => 0")}

OptionMatchers ==
  {[Some |-> Fn("v => v + 10"), None |-> Fn("() => 12")],
   [Some |-> Fn("e => e + 's'"), None |-> Fn("() => 'none'")]}

ResultMatchers ==
  {[Ok |-> Fn("v => v + 10"), Err |-> Fn("() => 100")],
   [Ok |-> Fn("() => 'none'"), Err |-> Fn("e => e + 's'")]}

(* Default values handed to unwrapOr and mapOr. *)
Defaults == {Num(1), Str("")}

(* Fallback suppliers handed to unwrapOrElse and mapOrElse. *)
Fallbacks == {Fn("() => 1"), Fn("() => 0")}

(* Callbacks handed to Option.andThen: three that return an Option, one of *)
(* them with a falsy payload, and the README's, which returns a plain      *)
(* value.                                                                   *)
OptionBinders ==
  {Fn("v => Some(v + 10)"), Fn("() => None()"), Fn("() => Some(0)"), Fn("v => v + 50")}

(* Callbacks handed to Option.orElse. *)
OptionSuppliers == {Fn("() => Some(50)"), Fn("() => None()")}

(* Callbacks handed to Result.andThen. *)
ResultBinders == {Fn("v => Ok(v + 20)"), Fn("() => Ok(0)"), Fn("e => Err(e + 's')")}

(* Callbacks handed to Result.orElse. *)
ResultHandlers == {Fn("() => Ok(50)"), Fn("e => Err(e + 's')")}

(* Callbacks handed to Result.mapErr. *)
ErrMappers == {Fn("e => e + 's'"), Fn("() => 0")}

(* Callbacks handed to Result.unwrapOrElse. *)
Recoveries == {Fn("e => e + 's'"), Fn("() => 100")}

(* `x => f(x).andThen(g)` *)
Bind(f, g) == Fn("x => (" \o f.s \o ")(x).andThen(" \o g.s \o ")")

Binders == OptionBinders \cup ResultBinders

IsBind(src) == \E p \in Binders \X Binders : Bind(p[1], p[2]).s = src

(* `x.andThen(cb)` on whatever value x is: the method of the instance, or  *)
(* the TypeError of calling a property that is no function.                 *)
Member_andThen(st, x, cb) ==
  IF x.ty = "object" /\ x.n \in DOMAIN st.heap
  THEN IF st.heap[x.n].cls = "Option"
       THEN Option_andThen(st, x.n, cb)
       ELSE Result_andThen(st, x.n, cb)
  ELSE Thr(st, [ty |-> "TypeError", n |-> 0, s |-> "andThen is not a function"])

(* The callbacks that build an instance, and the plain ones. *)
FnRun(st, src, args) ==
  CASE src = "v => Some(v + 10)" -> Some(st, JsAdd(args[1], Num(10)))
    [] src = "() => None()" -> None(st)
    [] src = "() => Some(50)" -> Some(st, Num(50))
    [] src = "() => Some(0)" -> Some(st, Num(0))
    [] src = "v => Ok(v + 20)" -> Ok(st, JsAdd(args[1], Num(20)))
    [] src = "() => Ok(50)" -> Ok(st, Num(50))
    [] src = "() => Ok(0)" -> Ok(st, Num(0))
    [] src = "e => Err(e + 's')" -> Err(st, JsAdd(args[1], Str("s")))
    [] IsBind(src) ->
         LET p == CHOOSE p \in Binders \X Binders : Bind(p[1], p[2]).s = src
             r == FnRun(st, p[1].s, args)
         IN IF r.out.kind = "throw" THEN r ELSE Member_andThen(r.st, r.out.val, p[2])
    [] OTHER -> Ret(st, FnBody(src, args))

Options == {a \in DOMAIN heap : heap[a].cls = "Option"}

Results == {a \in DOMAIN heap : heap[a].cls = "Result"}

(***************************************************************************)
(* The state machine: one action per call of the API.                      *)
(***************************************************************************)
(* The machine a call starts on: the instances built so far, no callback   *)
(* called yet.                                                              *)
Start == [heap |-> heap, made |-> made, calls |-> <<>>]

(* A test case builds its instances with the factories and then makes one *)
(* call on them; the case is still building while no method has run.       *)
Arranging == last.op \in {"", "Some", "None", "Ok", "Err"}

(* The call `op` on `this` with `args` ran to completion `r`. *)
Done(op, this, args, r) ==
  /\ Arranging
  /\ Len(r.st.heap) <= MaxHeap
  /\ heap' = r.st.heap
  /\ made' = r.st.made
  /\ last' = [op |-> op, this |-> this, args |-> args,
              out |-> r.out, calls |-> r.st.calls]

Init ==
  /\ heap = <<>>
  /\ made = <<>>
  /\ last = [op |-> "", this |-> 0, args |-> <<>>,
             out |-> Return(Undefined), calls |-> <<>>]

CallSome(v) == Done("Some", 0, <<v>>, Some(Start, v))

CallNone == Done("None", 0, <<>>, None(Start))

CallOk(v) == Done("Ok", 0, <<v>>, Ok(Start, v))

CallErr(e) == Done("Err", 0, <<e>>, Err(Start, e))

GetIsSome(a) == Done("Option.isSome", a, <<>>, Ret(Start, Bool(Option_isSome(heap[a]))))

GetIsNone(a) == Done("Option.isNone", a, <<>>, Ret(Start, Bool(Option_isNone(heap[a]))))

CallOptionExpect(a, msg) == Done("Option.expect", a, <<Str(msg)>>, Option_expect(Start, a, msg))

CallOptionUnwrap(a) == Done("Option.unwrap", a, <<>>, Option_unwrap(Start, a))

CallOptionMatch(a, m) == Done("Option.match", a, <<m.Some, m.None>>, Option_match(Start, a, m))

CallOkOr(a, e) == Done("Option.okOr", a, <<e>>, Option_okOr(Start, a, e))

CallOkOrElse(a, s) == Done("Option.okOrElse", a, <<s>>, Option_okOrElse(Start, a, s))

GetOk(a) == Done("Result.ok", a, <<>>, Result_ok(Start, a))

GetErr(a) == Done("Result.err", a, <<>>, Result_err(Start, a))

GetIsOk(a) == Done("Result.isOk", a, <<>>, Ret(Start, Bool(Result_isOk(heap[a]))))

GetIsErr(a) == Done("Result.isErr", a, <<>>, Ret(Start, Bool(Result_isErr(heap[a]))))

CallResultMatch(a, m) == Done("Result.match", a, <<m.Ok, m.Err>>, Result_match(Start, a, m))

CallResultUnwrap(a) == Done("Result.unwrap", a, <<>>, Result_unwrap(Start, a))

CallResultUnwrapErr(a) == Done("Result.unwrapErr", a, <<>>, Result_unwrapErr(Start, a))

CallResultExpect(a, msg) == Done("Result.expect", a, <<Str(msg)>>, Result_expect(Start, a, msg))

CallOptionUnwrapOr(a, d) == Done("Option.unwrapOr", a, <<d>>, Option_unwrapOr(Start, a, d))

CallOptionUnwrapOrElse(a, f) == Done("Option.unwrapOrElse", a, <<f>>, Option_unwrapOrElse(Start, a, f))

CallOptionMap(a, f) == Done("Option.map", a, <<f>>, Option_map(Start, a, f))

CallOptionMapOr(a, d, f) == Done("Option.mapOr", a, <<d, f>>, Option_mapOr(Start, a, d, f))

CallOptionMapOrElse(a, d, f) == Done("Option.mapOrElse", a, <<d, f>>, Option_mapOrElse(Start, a, d, f))

CallOptionAnd(a, b) == Done("Option.and", a, <<Ref(b)>>, Option_and(Start, a, Ref(b)))

CallOptionAndThen(a, f) == Done("Option.andThen", a, <<f>>, Option_andThen(Start, a, f))

CallOptionOr(a, b) == Done("Option.or", a, <<Ref(b)>>, Option_or(Start, a, Ref(b)))

CallOptionOrElse(a, f) == Done("Option.orElse", a, <<f>>, Option_orElse(Start, a, f))

CallUsage(a, f) == Done("Option.andThen.unwrap", a, <<f>>, Usage_andThen_unwrap(Start, a, f))

CallResultMap(a, f) == Done("Result.map", a, <<f>>, Result_map(Start, a, f))

CallResultMapErr(a, f) == Done("Result.mapErr", a, <<f>>, Result_mapErr(Start, a, f))

CallResultAnd(a, b) == Done("Result.and", a, <<Ref(b)>>, Result_and(Start, a, Ref(b)))

CallResultAndThen(a, f) == Done("Result.andThen", a, <<f>>, Result_andThen(Start, a, f))

CallResultOr(a, b) == Done("Result.or", a, <<Ref(b)>>, Result_or(Start, a, Ref(b)))

CallResultOrElse(a, f) == Done("Result.orElse", a, <<f>>, Result_orElse(Start, a, f))

CallResultUnwrapOr(a, d) == Done("Result.unwrapOr", a, <<d>>, Result_unwrapOr(Start, a, d))

CallResultUnwrapOrElse(a, f) == Done("Result.unwrapOrElse", a, <<f>>, Result_unwrapOrElse(Start, a, f))

(* The next test case starts from nothing. *)
NewCase ==
  /\ ~Arranging
  /\ heap' = <<>>
  /\ made' = <<>>
  /\ last' = [op |-> "", this |-> 0, args |-> <<>>,
              out |-> Return(Undefined), calls |-> <<>>]

Next ==
  \/ \E v \in Payloads : CallSome(v)
  \/ CallNone
  \/ \E v \in Payloads : CallOk(v)
  \/ \E e \in Payloads : CallErr(e)
  \/ \E a \in Options : GetIsSome(a)
  \/ \E a \in Options : GetIsNone(a)
  \/ \E a \in Options, msg \in Msgs : CallOptionExpect(a, msg)
  \/ \E a \in Options : CallOptionUnwrap(a)
  \/ \E a \in Options, m \in OptionMatchers : CallOptionMatch(a, m)
  \/ \E a \in Options, e \in ErrArgs : CallOkOr(a, e)
  \/ \E a \in Options, s \in Suppliers : CallOkOrElse(a, s)
  \/ \E a \in Results : GetOk(a)
  \/ \E a \in Results : GetErr(a)
  \/ \E a \in Results : GetIsOk(a)
  \/ \E a \in Results : GetIsErr(a)
  \/ \E a \in Results, m \in ResultMatchers : CallResultMatch(a, m)
  \/ \E a \in Results : CallResultUnwrap(a)
  \/ \E a \in Results : CallResultUnwrapErr(a)
  \/ \E a \in Results, msg \in Msgs : CallResultExpect(a, msg)
  \/ \E a \in Options, d \in Defaults : CallOptionUnwrapOr(a, d)
  \/ \E a \in Options, f \in Fallbacks : CallOptionUnwrapOrElse(a, f)
  \/ \E a \in Options, f \in MapFns : CallOptionMap(a, f)
  \/ \E a \in Options, d \in Defaults, f \in MapFns : CallOptionMapOr(a, d, f)
  \/ \E a \in Options, d \in Fallbacks, f \in MapFns : CallOptionMapOrElse(a, d, f)
  \/ \E a \in Options, b \in Options : CallOptionAnd(a, b)
  \/ \E a \in Options, f \in OptionBinders : CallOptionAndThen(a, f)
  \/ \E a \in Options, b \in Options : CallOptionOr(a, b)
  \/ \E a \in Options, f \in OptionSuppliers : CallOptionOrElse(a, f)
  \/ \E a \in Options : CallUsage(a, Fn("v => v + 50"))
  \/ \E a \in Results, f \in MapFns : CallResultMap(a, f)
  \/ \E a \in Results, f \in ErrMappers : CallResultMapErr(a, f)
  \/ \E a \in Results, b \in Results : CallResultAnd(a, b)
  \/ \E a \in Results, f \in ResultBinders : CallResultAndThen(a, f)
  \/ \E a \in Results, b \in Results : CallResultOr(a, b)
  \/ \E a \in Results, f \in ResultHandlers : CallResultOrElse(a, f)
  \/ \E a \in Results, d \in Defaults : CallResultUnwrapOr(a, d)
  \/ \E a \in Results, f \in Recoveries : CallResultUnwrapOrElse(a, f)
  \/ NewCase

Spec == Init /\ [][Next]_vars

(***************************************************************************)
(* Vocabulary of the properties.                                           *)
(***************************************************************************)
(* The receiver of the last call: the factory that built it, the payload   *)
(* the factory was given.                                                   *)
BuiltBy(f) == last.this \in DOMAIN made /\ made[last.this].by = f

Payload == made[last.this].arg

(* The receiver was built by factory f from a payload that is a value:     *)
(* neither null nor undefined.                                              *)
BuiltFromValue(f) == BuiltBy(f) /\ Payload.ty \notin {"null", "undefined"}

(* The instance the last call returned. *)
Returned == heap[last.out.val.n]

ReturnedInstance ==
  /\ last.out.kind = "return"
  /\ last.out.val.ty = "object"
  /\ last.out.val.n \in DOMAIN heap

Fresh == [heap |-> <<>>, made |-> <<>>, calls |-> <<>>]

(* The instances the factories build, as values. *)
SomeOf(v) == Some(Fresh, v).st.heap[1]

NoneOf == None(Fresh).st.heap[1]

OkOf(v) == Ok(Fresh, v).st.heap[1]

ErrOf(e) == Err(Fresh, e).st.heap[1]

(* Equality of two Options, of two Results: the variant and the active payload. *)
OptionEquals(x, y) ==
  /\ Option_isSome(x) = Option_isSome(y)
  /\ Option_isSome(x) => x.value = y.value

ResultEquals(x, y) ==
  /\ Result_isOk(x) = Result_isOk(y)
  /\ IF Result_isOk(x) THEN x.value = y.value ELSE x.error = y.error

(* A thrown value carries v: it is v, or an Error whose message is v's text. *)
Carries(thrown, v) == thrown = v \/ thrown = ErrorObj(JsString(v))

(***************************************************************************)
(* C1: Some(v).isSome is true, Some(v).isNone is false and Some(v).unwrap() *)
(* returns v, for every payload v, the falsy ones included; None().isNone   *)
(* is true and None().isSome is false; on every Option exactly one of       *)
(* isSome and isNone is true.  Stated for the payloads that are values, the *)
(* falsy 0, "" and false among them.                                        *)
(***************************************************************************)
C1_ConstructionRoundtrip ==
  /\ last.op = "Option.isSome" =>
       /\ BuiltFromValue("Some") => last.out = Return(Bool(TRUE))
       /\ BuiltBy("None") => last.out = Return(Bool(FALSE))
  /\ last.op = "Option.isNone" =>
       /\ BuiltFromValue("Some") => last.out = Return(Bool(FALSE))
       /\ BuiltBy("None") => last.out = Return(Bool(TRUE))
  /\ (last.op = "Option.unwrap" /\ BuiltFromValue("Some")) =>
       last.out = Return(Payload)
  /\ \A a \in Options : Option_isSome(heap[a]) # Option_isNone(heap[a])

(***************************************************************************)
(* C2: Ok(v).isOk is true and Ok(v).isErr is false, Err(e).isErr is true    *)
(* and Err(e).isOk is false, for every v and e, the falsy ones included; on *)
(* every Result exactly one of isOk and isErr is true.                      *)
(***************************************************************************)
C2_IsOkIsErr ==
  /\ last.op = "Result.isOk" => last.out = Return(Bool(BuiltBy("Ok")))
  /\ last.op = "Result.isErr" => last.out = Return(Bool(BuiltBy("Err")))
  /\ \A a \in Results : Result_isOk(heap[a]) # Result_isErr(heap[a])

(* isErr was read on an Err whose payload is falsy, and is true. *)
C2_Witness ==
  /\ last.op = "Result.isErr"
  /\ BuiltBy("Err")
  /\ ~ToBoolean(Payload)
  /\ last.out = Return(Bool(TRUE))

(***************************************************************************)
(* C3: Ok(v).ok equals Some(v) and Ok(v).err equals None(); Err(e).ok       *)
(* equals None() and Err(e).err equals Some(e).  The returned Option has    *)
(* the variant and the active payload of the expected one, and the same     *)
(* stored fields.                                                           *)
(***************************************************************************)
C3_OkErrProjection ==
  /\ last.op = "Result.ok" =>
       /\ ReturnedInstance
       /\ LET want == IF BuiltBy("Ok") THEN SomeOf(Payload) ELSE NoneOf
          IN OptionEquals(Returned, want) /\ Returned = want
  /\ last.op = "Result.err" =>
       /\ ReturnedInstance
       /\ LET want == IF BuiltBy("Err") THEN SomeOf(Payload) ELSE NoneOf
          IN OptionEquals(Returned, want) /\ Returned = want

(* err was read on Err("boom") and returned a present Option holding "boom". *)
C3_Witness ==
  /\ last.op = "Result.err"
  /\ BuiltBy("Err")
  /\ Payload = Str("boom")
  /\ ReturnedInstance
  /\ Option_isSome(Returned)
  /\ Returned.value = Str("boom")

(***************************************************************************)
(* C4: Some(v).okOr(e) equals Ok(v) and None().okOr(e) equals Err(e);       *)
(* okOrElse(s) gives Ok(v) on Some(v) without calling s, and Err(s()) on    *)
(* None() with s called exactly once.  Stated for the payloads v that are   *)
(* values.                                                                  *)
(***************************************************************************)
C4_OkOr ==
  /\ last.op = "Option.okOr" =>
       /\ ReturnedInstance
       /\ BuiltFromValue("Some") => ResultEquals(Returned, OkOf(Payload))
       /\ BuiltBy("None") => ResultEquals(Returned, ErrOf(last.args[1]))
  /\ last.op = "Option.okOrElse" =>
       /\ ReturnedInstance
       /\ BuiltFromValue("Some") =>
            ResultEquals(Returned, OkOf(Payload)) /\ last.calls = <<>>
       /\ BuiltBy("None") =>
            /\ ResultEquals(Returned, ErrOf(FnBody(last.args[1].s, <<>>)))
            /\ last.calls = <<[fn |-> last.args[1].s, args |-> <<>>]>>

(***************************************************************************)
(* C5: match calls exactly one handler, exactly once, and returns that      *)
(* handler's result: Option.match calls Some(v) with the payload if and     *)
(* only if the Option was built with Some (for any v, falsy ones included)  *)
(* and None() otherwise; Result.match calls Ok(v) on a success and Err(e)   *)
(* on a failure.  Stated for the Option payloads v that are values.         *)
(***************************************************************************)
C5_MatchDispatch ==
  /\ last.op = "Option.match" =>
       /\ BuiltFromValue("Some") =>
            /\ last.calls = <<[fn |-> last.args[1].s, args |-> <<Payload>>]>>
            /\ last.out = Return(FnBody(last.args[1].s, <<Payload>>))
       /\ BuiltBy("None") =>
            /\ last.calls = <<[fn |-> last.args[2].s, args |-> <<>>]>>
            /\ last.out = Return(FnBody(last.args[2].s, <<>>))
  /\ last.op = "Result.match" =>
       /\ BuiltBy("Ok") =>
            /\ last.calls = <<[fn |-> last.args[1].s, args |-> <<Payload>>]>>
            /\ last.out = Return(FnBody(last.args[1].s, <<Payload>>))
       /\ BuiltBy("Err") =>
            /\ last.calls = <<[fn |-> last.args[2].s, args |-> <<Payload>>]>>
            /\ last.out = Return(FnBody(last.args[2].s, <<Payload>>))

(***************************************************************************)
(* C6: on None(), unwrap() raises an error with an empty message and        *)
(* expect(msg) raises an error whose message is msg; on Some(v), unwrap()   *)
(* and expect(msg) both return v and raise nothing.  Stated for the         *)
(* payloads v that are values.                                              *)
(***************************************************************************)
C6_OptionUnwrapExpect ==
  /\ last.op = "Option.unwrap" =>
       /\ BuiltBy("None") => last.out = Throw(ErrorObj(""))
       /\ BuiltFromValue("Some") => last.out = Return(Payload)
  /\ last.op = "Option.expect" =>
       /\ BuiltBy("None") => last.out = Throw(ErrorObj(last.args[1].s))
       /\ BuiltFromValue("Some") => last.out = Return(Payload)

C8_UnwrapErr ==
  last.op = "Result.unwrapErr" =>
    /\ BuiltBy("Err") => last.out = Return(Payload)
    /\ BuiltBy("Ok") => last.out.kind = "throw" /\ Carries(last.out.val, Payload)

(***************************************************************************)
(* C9: Ok(v).expect(msg) returns v; Err(e).expect(msg) raises a failure     *)
(* whose message is exactly msg, then ": ", then the stringified failure    *)
(* payload e.                                                               *)
(***************************************************************************)
C9_ExpectMessage ==
  last.op = "Result.expect" =>
    /\ BuiltBy("Ok") => last.out = Return(Payload)
    /\ BuiltBy("Err") =>
         last.out = Throw(ErrorObj(last.args[1].s \o ": " \o JsString(Payload)))

(***************************************************************************)
(* C10: for every failure payload e, null and undefined included,           *)
(* Err(e).expect(msg) raises the expect failure, an Error built from msg;   *)
(* it never fails with an internal error raised while the message is built. *)
(***************************************************************************)
C10_ExpectNeverFailsInternally ==
  (last.op = "Result.expect" /\ BuiltBy("Err")) =>
    /\ last.out.kind = "throw"
    /\ last.out.val.ty = "Error"

(* The instance a call that ran to completion r returned. *)
InstanceOf(r) == r.st.heap[r.out.val.n]

ReturnsInstance(r) ==
  /\ r.out.kind = "return"
  /\ r.out.val.ty = "object"
  /\ r.out.val.n \in DOMAIN r.st.heap

(***************************************************************************)
(* C11: Option.map obeys the functor laws: Some(v).map(v => v) equals       *)
(* Some(v); Some(v).map(f).map(g) equals Some(v).map(x => g(f(x))), also    *)
(* when f(v) is falsy such as 0; None().map(f) is absent and f is not       *)
(* called.  Stated for the payloads that are values.                        *)
(***************************************************************************)
C11_MapFunctorLaws ==
  last.op = "Option.map" =>
    /\ (BuiltFromValue("Some") /\ last.args[1] = Fn("v => v")) =>
         ReturnedInstance /\ Returned = SomeOf(Payload)
    /\ BuiltFromValue("Some") =>
         /\ ReturnedInstance
         /\ \A g \in MapFns :
              LET chained == Option_map(Start, last.out.val.n, g)
                  composed == Option_map(Start, last.this, Compose(g, last.args[1]))
              IN /\ ReturnsInstance(chained)
                 /\ ReturnsInstance(composed)
                 /\ InstanceOf(chained) = InstanceOf(composed)
    /\ BuiltBy("None") =>
         /\ ReturnedInstance
         /\ Option_isNone(Returned)
         /\ last.calls = <<>>

(* f(v), evaluated on its own. *)
Applied(f, v) == FnRun(Fresh, f.s, <<v>>)

(* The last call returned what the completion r returned: the same plain   *)
(* value, or an instance equal to r's.                                      *)
ReturnedSameAs(r) ==
  IF ReturnsInstance(r)
  THEN ReturnedInstance /\ Returned = InstanceOf(r)
  ELSE last.out = r.out

(* Some(20).andThen(v => Some(v + 10)).andThen(v => Some(v + 10)).unwrap() *)
AndThenScenario ==
  LET f == Fn("v => Some(v + 10)")
      s == Some(Fresh, Num(20))
      a == Option_andThen(s.st, s.out.val.n, f)
      b == Option_andThen(a.st, a.out.val.n, f)
  IN Option_unwrap(b.st, b.out.val.n).out

(***************************************************************************)
(* C12: Some(v).andThen(f) equals f(v); None().andThen(f) equals None() and *)
(* f is not called; Some(20).andThen(v => Some(v + 10)).andThen(v =>        *)
(* Some(v + 10)).unwrap() is 40.  Stated for the payloads that are values   *)
(* and the callbacks that return an Option.                                 *)
(***************************************************************************)
C12_AndThenBind ==
  (last.op = "Option.andThen" /\ ReturnsInstance(Applied(last.args[1], Num(20)))) =>
    /\ BuiltFromValue("Some") => ReturnedSameAs(Applied(last.args[1], Payload))
    /\ BuiltBy("None") =>
         /\ ReturnedInstance
         /\ Returned = NoneOf
         /\ last.calls = <<>>
    /\ AndThenScenario = Return(Num(40))

(* Some(10).andThen(v => v + 50).unwrap(), the README's example. *)
UsageScenario ==
  LET s == Some(Fresh, Num(10))
  IN Usage_andThen_unwrap(s.st, s.out.val.n, Fn("v => v + 50")).out

(***************************************************************************)
(* C13: andThen accepts a callback that returns a plain value: for every    *)
(* Some(v) and every f returning a plain value, Some(v).andThen(f).unwrap() *)
(* returns f(v), so Some(10).andThen(v => v + 50).unwrap() is 60.  Stated   *)
(* for the truthy payloads, which the code reads as present.                *)
(***************************************************************************)
C13_ReadmeUsage ==
  (last.op = "Option.andThen.unwrap" /\ BuiltBy("Some") /\ ToBoolean(Payload)) =>
    /\ last.out = Return(FnBody(last.args[1].s, <<Payload>>))
    /\ UsageScenario = Return(Num(60))

(***************************************************************************)
(* C14: for a present a, a.or(b) is a itself and a.and(b) is b itself; for  *)
(* an absent a, a.or(b) is b itself and a.and(b) is a itself.  Stated for   *)
(* the payloads that are values.                                            *)
(***************************************************************************)
C14_AndOr ==
  /\ last.op = "Option.or" =>
       /\ BuiltFromValue("Some") => last.out = Return(Ref(last.this))
       /\ BuiltBy("None") => last.out = Return(last.args[1])
  /\ last.op = "Option.and" =>
       /\ BuiltFromValue("Some") => last.out = Return(last.args[1])
       /\ BuiltBy("None") => last.out = Return(Ref(last.this))

(* The callback log of a call that called f exactly once, with v. *)
CalledOnceWith(f, v) == last.calls = <<[fn |-> f.s, args |-> <<v>>]>>

NotCalled == last.calls = <<>>

(* Ok(2).map(x => x * x).map(x => x * x).unwrap() *)
MapScenarioOk ==
  LET sq == Fn("x => x * x")
      s == Ok(Fresh, Num(2))
      a == Result_map(s.st, s.out.val.n, sq)
      b == Result_map(a.st, a.out.val.n, sq)
  IN Result_unwrap(b.st, b.out.val.n).out

(* Err(3).map(x => x * x).map(x => x * x) *)
MapScenarioErr ==
  LET sq == Fn("x => x * x")
      s == Err(Fresh, Num(3))
      a == Result_map(s.st, s.out.val.n, sq)
  IN Result_map(a.st, a.out.val.n, sq)

(***************************************************************************)
(* C15: Ok(v).map(f) equals Ok(f(v)); Err(e).map(f) still holds e and f is  *)
(* not called; Ok(2).map(x => x * x).map(x => x * x).unwrap() is 16;        *)
(* Err(3).map(x => x * x).map(x => x * x) equals Err(3).                    *)
(***************************************************************************)
C15_ResultMap ==
  last.op = "Result.map" =>
    /\ BuiltBy("Ok") =>
         /\ ReturnedInstance
         /\ Returned = OkOf(FnBody(last.args[1].s, <<Payload>>))
    /\ BuiltBy("Err") =>
         /\ ReturnedInstance
         /\ Returned = ErrOf(Payload)
         /\ NotCalled
    /\ MapScenarioOk = Return(Num(16))
    /\ ReturnsInstance(MapScenarioErr)
    /\ InstanceOf(MapScenarioErr) = ErrOf(Num(3))
    /\ MapScenarioErr.st.calls = <<>>

(* Ok(0).map(v => v + 10) has returned Ok(10). *)
C15_Witness ==
  /\ last.op = "Result.map"
  /\ BuiltBy("Ok")
  /\ Payload = Num(0)
  /\ last.args[1] = Fn("v => v + 10")
  /\ ReturnedInstance
  /\ Returned = OkOf(Num(10))

(***************************************************************************)
(* C16: Err(e).mapErr(f) equals Err(f(e)) and f is called exactly once,     *)
(* with e; Ok(v).mapErr(f) still holds v and f is not called.               *)
(***************************************************************************)
C16_ResultMapErr ==
  last.op = "Result.mapErr" =>
    /\ BuiltBy("Err") =>
         /\ ReturnedInstance
         /\ Returned = ErrOf(FnBody(last.args[1].s, <<Payload>>))
         /\ CalledOnceWith(last.args[1], Payload)
    /\ BuiltBy("Ok") =>
         /\ ReturnedInstance
         /\ Returned = OkOf(Payload)
         /\ NotCalled

(* Err("boom").mapErr(e => e + 's') has returned Err("booms"). *)
C16_Witness ==
  /\ last.op = "Result.mapErr"
  /\ BuiltBy("Err")
  /\ Payload = Str("boom")
  /\ last.args[1] = Fn("e => e + 's'")
  /\ ReturnedInstance
  /\ Returned = ErrOf(Str("booms"))

(***************************************************************************)
(* C17: on a failure r, r.and(other) and r.andThen(f) return r itself and f *)
(* is not called; Ok(v).and(other) returns other itself and                 *)
(* Ok(v).andThen(f) returns f(v).                                           *)
(***************************************************************************)
C17_ResultAndAndThen ==
  /\ last.op = "Result.and" =>
       /\ BuiltBy("Err") => last.out = Return(Ref(last.this))
       /\ BuiltBy("Ok") => last.out = Return(last.args[1])
  /\ last.op = "Result.andThen" =>
       /\ BuiltBy("Err") => last.out = Return(Ref(last.this)) /\ NotCalled
       /\ BuiltBy("Ok") =>
            /\ ReturnedSameAs(Applied(last.args[1], Payload))
            /\ CalledOnceWith(last.args[1], Payload)

(* Ok(0).andThen(v => Ok(v + 20)) has returned Ok(20). *)
C17_Witness ==
  /\ last.op = "Result.andThen"
  /\ BuiltBy("Ok")
  /\ Payload = Num(0)
  /\ last.args[1] = Fn("v => Ok(v + 20)")
  /\ ReturnedInstance
  /\ Returned = OkOf(Num(20))

(***************************************************************************)
(* C18: on a success r, r.or(other) and r.orElse(f) return r itself and f   *)
(* is not called; Err(e).or(other) returns other itself and Err(e).orElse(f)*)
(* returns f(e) with f called exactly once, with e.                         *)
(***************************************************************************)
C18_ResultOrOrElse ==
  /\ last.op = "Result.or" =>
       /\ BuiltBy("Ok") => last.out = Return(Ref(last.this))
       /\ BuiltBy("Err") => last.out = Return(last.args[1])
  /\ last.op = "Result.orElse" =>
       /\ BuiltBy("Ok") => last.out = Return(Ref(last.this)) /\ NotCalled
       /\ BuiltBy("Err") =>
            /\ ReturnedSameAs(Applied(last.args[1], Payload))
            /\ CalledOnceWith(last.args[1], Payload)

(* Err("boom").orElse(e => Err(e + 's')) has returned Err("booms"). *)
C18_Witness ==
  /\ last.op = "Result.orElse"
  /\ BuiltBy("Err")
  /\ Payload = Str("boom")
  /\ last.args[1] = Fn("e => Err(e + 's')")
  /\ ReturnedInstance
  /\ Returned = ErrOf(Str("booms"))

(***************************************************************************)
(* C19: Ok(v).unwrapOr(d) returns v and Ok(v).unwrapOrElse(f) returns v     *)
(* without calling f; Err(e).unwrapOr(d) returns d and                      *)
(* Err(e).unwrapOrElse(f) returns f(e) with f called once, with e; for      *)
(* falsy v and e too.                                                       *)
(***************************************************************************)
C19_ResultUnwrapOr ==
  /\ last.op = "Result.unwrapOr" =>
       /\ BuiltBy("Ok") => last.out = Return(Payload)
       /\ BuiltBy("Err") => last.out = Return(last.args[1])
  /\ last.op = "Result.unwrapOrElse" =>
       /\ BuiltBy("Ok") => last.out = Return(Payload) /\ NotCalled
       /\ BuiltBy("Err") =>
            /\ last.out = Return(FnBody(last.args[1].s, <<Payload>>))
            /\ CalledOnceWith(last.args[1], Payload)

(* Ok(0).unwrapOr(1) has returned 0. *)
C19_Witness ==
  /\ last.op = "Result.unwrapOr"
  /\ BuiltBy("Ok")
  /\ Payload = Num(0)
  /\ last.args[1] = Num(1)
  /\ last.out = Return(Num(0))

(* The last call called the supplier f, which takes no argument. *)
Supplied(f) == \E i \in DOMAIN last.calls : last.calls[i] = [fn |-> f.s, args |-> <<>>]

(* The last call called the mapping function f on a payload. *)
Mapped(f) ==
  \E i \in DOMAIN last.calls : last.calls[i].fn = f.s /\ Len(last.calls[i].args) = 1

(***************************************************************************)
(* C20: the callbacks of Option are lazy.  On a present Option,             *)
(* unwrapOrElse, okOrElse, orElse and mapOrElse never call the fallback     *)
(* supplier; on an absent one, map, mapOr, mapOrElse and andThen never call *)
(* the mapping function and each fallback supplier is called exactly once;  *)
(* mapOrElse always calls exactly one of its two callbacks.  Stated for the *)
(* payloads that are values.                                                *)
(***************************************************************************)
C20_LazyCallbacks ==
  /\ last.op \in {"Option.unwrapOrElse", "Option.okOrElse", "Option.orElse"} =>
       /\ BuiltFromValue("Some") => NotCalled
       /\ BuiltBy("None") => last.calls = <<[fn |-> last.args[1].s, args |-> <<>>]>>
  /\ last.op = "Option.mapOrElse" =>
       /\ BuiltFromValue("Some") => ~Supplied(last.args[1])
       /\ BuiltBy("None") =>
            last.calls = <<[fn |-> last.args[1].s, args |-> <<>>]>>
       /\ Len(last.calls) = 1
  /\ last.op \in {"Option.map", "Option.andThen"} =>
       (BuiltBy("None") => NotCalled)
  /\ last.op = "Option.mapOr" =>
       (BuiltBy("None") => ~Mapped(last.args[2]))

(* The instance at address a is as its factory built it. *)
AsBuilt(a) ==
  heap[a] = CASE made[a].by = "Some" -> SomeOf(made[a].arg)
              [] made[a].by = "None" -> NoneOf
              [] made[a].by = "Ok" -> OkOf(made[a].arg)
              [] made[a].by = "Err" -> ErrOf(made[a].arg)

(***************************************************************************)
(* C21: no operation of Option or Result changes its receiver or an         *)
(* argument: after any calls, every instance still has the variant and the  *)
(* payload it was constructed with.                                         *)
(***************************************************************************)
C21_Immutable ==
  /\ DOMAIN made = DOMAIN heap
  /\ \A a \in DOMAIN heap : AsBuilt(a)

(* Some(5).map(v => v + 10) has returned Some(15) and the receiver still   *)
(* holds 5.                                                                 *)
C21_Witness ==
  /\ last.op = "Option.map"
  /\ BuiltBy("Some")
  /\ Payload = Num(5)
  /\ last.args[1] = Fn("v => v + 10")
  /\ heap[last.this] = SomeOf(Num(5))
  /\ ReturnedInstance
  /\ Returned = SomeOf(Num(15))

Transformations ==
  {"Option.map", "Option.and", "Option.andThen", "Option.or", "Option.orElse",
   "Result.map", "Result.mapErr", "Result.and", "Result.andThen", "Result.or",
   "Result.orElse"}

(* The last call returned its receiver, or an instance it was given. *)
ReturnedReceiver == last.out = Return(Ref(last.this))

ReturnedArgument == \E i \in DOMAIN last.args : last.out = Return(last.args[i])

(* The last call returned the instance it constructed last. *)
ReturnedNew(by) ==
  /\ ReturnedInstance
  /\ last.out.val.n = Len(heap)
  /\ made[Len(heap)].by = by
  /\ ~ReturnedReceiver
  /\ ~ReturnedArgument

(* The receiver is read by the code as the variant its factory names. *)
ReadAsBuilt ==
  heap[last.this].cls = "Option" =>
    (BuiltBy("None") \/ (BuiltBy("Some") /\ ToBoolean(Payload)))

(***************************************************************************)
(* C22, as written: every transformation (map, mapErr, and, andThen, or,    *)
(* orElse on either type) returns a newly constructed instance, never the   *)
(* receiver and never an instance passed in as an argument.  Stated for the *)
(* receivers that isSome reads as the variant they were built as.           *)
(***************************************************************************)
C22_AlwaysNewInstance ==
  (last.op \in Transformations /\ ReadAsBuilt) =>
    /\ last.out.kind = "return"
    /\ ~ReturnedReceiver
    /\ ~ReturnedArgument

(***************************************************************************)
(* C22, amended: map returns a newly constructed instance when the receiver *)
(* reads as present (Option) or is a success (Result), mapErr when it is a  *)
(* failure, and the receiver itself otherwise; and / or return the receiver *)
(* itself or the argument itself; andThen / orElse return the receiver      *)
(* itself or what the callback returned.                                    *)
(***************************************************************************)
C22_NewOnlyWhenMapped ==
  /\ last.op = "Option.map" =>
       IF Option_isSome(heap[last.this]) THEN ReturnedNew("Some") ELSE ReturnedReceiver
  /\ last.op = "Result.map" =>
       IF Result_isOk(heap[last.this]) THEN ReturnedNew("Ok") ELSE ReturnedReceiver
  /\ last.op = "Result.mapErr" =>
       IF Result_isErr(heap[last.this]) THEN ReturnedNew("Err") ELSE ReturnedReceiver
  /\ last.op \in {"Option.and", "Option.or", "Result.and", "Result.or"} =>
       (ReturnedReceiver \/ ReturnedArgument)
  /\ last.op \in {"Option.andThen", "Option.orElse", "Result.andThen", "Result.orElse"} =>
       \/ ReturnedReceiver /\ NotCalled
       \/ /\ Len(last.calls) = 1
          /\ last.out = FnRun(Start, last.calls[1].fn, last.calls[1].args).out
             \/ (ReturnedInstance /\ last.out.val.n = Len(heap))

(* Err("boom").map(v => v + 10) has returned the receiver itself. *)
C22_Witness ==
  /\ last.op = "Result.map"
  /\ BuiltBy("Err")
  /\ Payload = Str("boom")
  /\ last.args[1] = Fn("v => v + 10")
  /\ ReturnedReceiver
  /\ Len(heap) = 1

(***************************************************************************)
(* C23: two instances of the same type with the same variant and the same   *)
(* active payload are equal by value, every stored field being equal,       *)
(* whichever calls produced them; two instances of different variants are   *)
(* never equal.                                                             *)
(***************************************************************************)
C23_ValueEquality ==
  \A a \in DOMAIN heap, b \in DOMAIN heap :
    heap[a].cls = heap[b].cls =>
      /\ made[a] = made[b] => heap[a] = heap[b]
      /\ made[a].by # made[b].by => heap[a] # heap[b]

Raised == last.out.kind = "throw"

(* The receiver of the last call is None(), or was built from a payload    *)
(* that is a value.                                                         *)
ReceiverFromValue ==
  /\ last.this \in DOMAIN made
  /\ BuiltBy("None") \/ Payload.ty \notin {"null", "undefined"}

(***************************************************************************)
(* C24: given callbacks that do not raise, the only calls that raise are    *)
(* Option.unwrap and Option.expect on an absent Option, Result.unwrap and   *)
(* Result.expect on a failure and Result.unwrapErr on a success, each with  *)
(* its Error; every other call on every instance returns a value.  Stated   *)
(* for the single calls of the API on receivers whose payload is a value.   *)
(***************************************************************************)
C24_OnlyNamedRaises ==
  (ReceiverFromValue /\ last.op # "Option.andThen.unwrap" /\ Raised) =>
    /\ last.out.val.ty = "Error"
    /\ \/ last.op \in {"Option.unwrap", "Option.expect"} /\ BuiltBy("None")
       \/ last.op \in {"Result.unwrap", "Result.expect"} /\ BuiltBy("Err")
       \/ last.op = "Result.unwrapErr" /\ BuiltBy("Ok")

(* The same match once more: same receiver, same handlers. *)
MatchAgain ==
  IF last.op = "Option.match"
  THEN Option_match(Start, last.this, [Some |-> last.args[1], None |-> last.args[2]])
  ELSE Result_match(Start, last.this, [Ok |-> last.args[1], Err |-> last.args[2]])

(***************************************************************************)
(* C25: calling match twice on the same instance with the same handlers     *)
(* returns the same result both times, and the instance is in the same      *)
(* state before the first call, between the calls and after the second.     *)
(***************************************************************************)
C25_MatchIdempotent ==
  last.op \in {"Option.match", "Result.match"} =>
    /\ MatchAgain.out = last.out
    /\ MatchAgain.st.calls = last.calls
    /\ AsBuilt(last.this)
    /\ MatchAgain.st.heap[last.this] = heap[last.this]

(* Ok(0).match({Ok: v => v + 10, Err: () => 100}) has returned 10. *)
C25_Witness ==
  /\ last.op = "Result.match"
  /\ BuiltBy("Ok")
  /\ Payload = Num(0)
  /\ last.args = <<Fn("v => v + 10"), Fn("() => 100")>>
  /\ last.out = Return(Num(10))
  /\ MatchAgain.out = Return(Num(10))

ResultGetters == {"Result.ok", "Result.err", "Result.isOk", "Result.isErr"}

C27_ProjectionPresence ==
  /\ (last.op = "Result.ok" /\ ReceiverFromValue) =>
       /\ ReturnedInstance
       /\ Option_isSome(Returned) = Result_isOk(heap[last.this])
  /\ (last.op = "Result.err" /\ ReceiverFromValue) =>
       /\ ReturnedInstance
       /\ Option_isSome(Returned) = Result_isErr(heap[last.this])

(***************************************************************************)
(* C28: Ok(v) stores value v and error null, and Err(e) stores value null   *)
(* and error e: in every Result built by the factories, the slot of the     *)
(* inactive side is null.                                                   *)
(***************************************************************************)
C28_InactiveSlotNull ==
  \A a \in Results :
    /\ made[a].by = "Ok" =>
         heap[a].value = made[a].arg /\ heap[a].error = Null
    /\ made[a].by = "Err" =>
         heap[a].value = Null /\ heap[a].error = made[a].arg

(* Err(0) has been built: its value slot is null, its error slot holds 0. *)
C28_Witness ==
  /\ last.op = "Err"
  /\ last.args = <<Num(0)>>
  /\ ReturnedInstance
  /\ Returned.value = Null
  /\ Returned.error = Num(0)

(* r.ok, r.okOr(x) and r.unwrap() applied to the instance the last call    *)
(* returned.                                                                *)
ThenOk == Result_ok(Start, last.out.val.n)

ThenOkOr(x) == Option_okOr(Start, last.out.val.n, x)

ThenUnwrap == Option_unwrap(Start, last.out.val.n)

(***************************************************************************)
(* C29: converting between the two types keeps the active side: for every   *)
(* Option o and failure value e, o.okOr(e).ok equals o; for every success r *)
(* and any x, r.ok.okOr(x) equals r; for every failure Err(e),              *)
(* Err(e).err.unwrap() returns e; for falsy payloads as well.  Stated for   *)
(* the payloads that are values.                                            *)
(***************************************************************************)
C29_ConversionRoundtrip ==
  /\ (last.op = "Option.okOr" /\ ReceiverFromValue) =>
       /\ ReturnedInstance
       /\ ReturnsInstance(ThenOk)
       /\ InstanceOf(ThenOk) = heap[last.this]
  /\ (last.op = "Result.ok" /\ BuiltFromValue("Ok")) =>
       /\ ReturnedInstance
       /\ \A x \in ErrArgs :
            /\ ReturnsInstance(ThenOkOr(x))
            /\ InstanceOf(ThenOkOr(x)) = heap[last.this]
  /\ (last.op = "Result.err" /\ BuiltFromValue("Err")) =>
       /\ ReturnedInstance
       /\ ThenUnwrap.out = Return(Payload)

(* The callbacks that return an instance of the receiver's type. *)
SameTypeBinders ==
  IF heap[last.this].cls = "Option"
  THEN OptionBinders \ {Fn("v => v + 50")}
  ELSE ResultBinders

(* m.andThen(f).andThen(g), continued from the m.andThen(f) just made, and *)
(* m.andThen(x => f(x).andThen(g)).                                         *)
Chained(g) ==
  IF heap[last.this].cls = "Option"
  THEN Option_andThen(Start, last.out.val.n, g)
  ELSE Result_andThen(Start, last.out.val.n, g)

Composed(g) ==
  IF heap[last.this].cls = "Option"
  THEN Option_andThen(Start, last.this, Bind(last.args[1], g))
  ELSE Result_andThen(Start, last.this, Bind(last.args[1], g))

(***************************************************************************)
(* C30: andThen is associative on both types: for every instance m and all  *)
(* functions f and g that return instances of the same type,                *)
(* m.andThen(f).andThen(g) equals m.andThen(x => f(x).andThen(g)), also     *)
(* when f returns an absent Option, a failure or an instance with a falsy   *)
(* payload.                                                                 *)
(***************************************************************************)
C30_AndThenAssociative ==
  (last.op \in {"Option.andThen", "Result.andThen"}
     /\ last.args[1] \in SameTypeBinders) =>
    /\ ReturnedInstance
    /\ \A g \in SameTypeBinders :
         /\ ReturnsInstance(Chained(g))
         /\ ReturnsInstance(Composed(g))
         /\ InstanceOf(Chained(g)) = InstanceOf(Composed(g))

(* Some(5).andThen(() => Some(0)) has returned Some(0); continuing with    *)
(* v => Some(v + 10) gives Some(0) again, chained or composed.              *)
C30_Witness ==
  /\ last.op = "Option.andThen"
  /\ BuiltBy("Some")
  /\ Payload = Num(5)
  /\ last.args[1] = Fn("() => Some(0)")
  /\ ReturnedInstance
  /\ Returned = SomeOf(Num(0))
  /\ InstanceOf(Chained(Fn("v => Some(v + 10)"))) = SomeOf(Num(0))
  /\ InstanceOf(Composed(Fn("v => Some(v + 10)"))) = SomeOf(Num(0))

====
